---- MODULE Spec2Model ----
(***************************************************************************)
(* CppNumericalSolvers: the Problem contract (box-constraint metadata,     *)
(* finite-difference gradient and Hessian, derivative checker), the        *)
(* BoundedProblem extension and the Armijo line search.                    *)
(*                                                                         *)
(* Scalar arithmetic.  TLC's integers are 32 bits wide, so numbers are     *)
(* carried at arbitrary precision: a signed integer of base-Base limbs,    *)
(* and on top of it                                                        *)
(*   - a binary64 double [m, e] = m * 2^e with every operation rounded to  *)
(*     53 bits (round to nearest, ties to even), for the finite-difference *)
(*     engine and the derivative checker: their steps (2.2204e-6, and      *)
(*     2^-52 * 10e7 for the Hessian) bring the differences they divide     *)
(*     down to the size of a double's rounding error, so the rounding is   *)
(*     part of what they compute;                                          *)
(*   - an exact decimal [n, e] = n * 10^-e for the line search, whose      *)
(*     constants 0.2, 0.9 and 0.5 are decimals and whose properties are    *)
(*     statements about the real-valued step sequence alpha_init * rho^k.  *)
(* Scalars are finite numbers throughout (no NaN); only a bound of a box   *)
(* constraint can be infinite.                                             *)
(*                                                                         *)
(* Three specifications share the module: SpecLS (one call of              *)
(* Armijo::linesearch), SpecFD (one call of checkGradient or               *)
(* finiteHessian) and SpecBounds (one Problem or BoundedProblem object     *)
(* and the calls of its setters and accessors).  Each leaves the other     *)
(* two parts' variables at rest.                                           *)
(***************************************************************************)
EXTENDS Integers, Sequences, FiniteSets, TLC

----------------------------------------------------------------------------
(* Arbitrary-precision naturals: little-endian sequences of limbs in       *)
(* 0..Base-1 without a leading (that is, last) zero limb; <<>> is zero.     *)
(*                                                                         *)
(* Every operator binds its arguments to their values once, in the form    *)
(*     CHOOSE r \in { body : a \in {argument} } : TRUE                     *)
(* which is just body with a standing for the argument: TLC evaluates an   *)
(* argument expression anew at each use while it decides ENABLED, which    *)
(* the fairness conditions of FairSpecLS need.                             *)

Base == 64 * 64

Max2(a, b) == IF a >= b THEN a ELSE b

Limb(a, i) == IF i <= Len(a) THEN a[i] ELSE 0

RECURSIVE NNormAt(_, _)
NNormAt(a, n) ==
    IF n = 0 THEN <<>>
    ELSE IF a[n] = 0 THEN NNormAt(a, n - 1)
    ELSE SubSeq(a, 1, n)

NNorm(p) == CHOOSE r \in { NNormAt(a, Len(a)) : a \in {p} } : TRUE

RECURSIVE NFromNat(_)
NFromNat(p) ==
    CHOOSE r \in { IF n = 0 THEN <<>> ELSE <<n % Base>> \o NFromNat(n \div Base) :
                   n \in {p} } : TRUE

RECURSIVE NAddC(_, _, _, _)
NAddC(a, b, i, c) ==
    IF i > Max2(Len(a), Len(b))
    THEN (IF c = 0 THEN <<>> ELSE <<c>>)
    ELSE CHOOSE r \in { <<t % Base>> \o NAddC(a, b, i + 1, t \div Base) :
                        t \in {Limb(a, i) + Limb(b, i) + c} } : TRUE

NAdd(p, q) == CHOOSE r \in { NAddC(a, b, 1, 0) : a \in {p}, b \in {q} } : TRUE

(* a - b for a >= b *)
RECURSIVE NSubC(_, _, _, _)
NSubC(a, b, i, c) ==
    IF i > Len(a) THEN <<>>
    ELSE CHOOSE r \in { IF t < 0 THEN <<t + Base>> \o NSubC(a, b, i + 1, 1)
                                 ELSE <<t>> \o NSubC(a, b, i + 1, 0) :
                        t \in {a[i] - Limb(b, i) - c} } : TRUE

NSub(p, q) == CHOOSE r \in { NNorm(NSubC(a, b, 1, 0)) : a \in {p}, b \in {q} } : TRUE

(* -1, 0, 1 as a < b, a = b, a > b *)
RECURSIVE NCmpAt(_, _, _)
NCmpAt(a, b, i) ==
    IF i = 0 THEN 0
    ELSE IF a[i] < b[i] THEN -1
    ELSE IF a[i] > b[i] THEN 1
    ELSE NCmpAt(a, b, i - 1)

NCmp(p, q) ==
    CHOOSE r \in { IF Len(a) < Len(b) THEN -1
                   ELSE IF Len(a) > Len(b) THEN 1
                   ELSE NCmpAt(a, b, Len(a)) : a \in {p}, b \in {q} } : TRUE

(* a * m for 0 <= m <= Base *)
RECURSIVE NMulSmallC(_, _, _, _)
NMulSmallC(a, m, i, c) ==
    IF i > Len(a) THEN NFromNat(c)
    ELSE CHOOSE r \in { <<t % Base>> \o NMulSmallC(a, m, i + 1, t \div Base) :
                        t \in {a[i] * m + c} } : TRUE

NMulSmall(p, q) ==
    CHOOSE r \in { IF m = 0 THEN <<>> ELSE NMulSmallC(a, m, 1, 0) :
                   a \in {p}, m \in {q} } : TRUE

NShiftLimbs(p, q) ==
    CHOOSE r \in { IF a = <<>> THEN <<>> ELSE [i \in 1..k |-> 0] \o a :
                   a \in {p}, k \in {q} } : TRUE

RECURSIVE NMulAt(_, _, _)
NMulAt(a, b, j) ==
    IF j > Len(b) THEN <<>>
    ELSE NAdd(NShiftLimbs(NMulSmall(a, b[j]), j - 1), NMulAt(a, b, j + 1))

NMul(p, q) ==
    CHOOSE r \in { IF Len(a) >= Len(b) THEN NMulAt(a, b, 1) ELSE NMulAt(b, a, 1) :
                   a \in {p}, b \in {q} } : TRUE

(* floor(a / m) and a mod m for 0 < m <= Base, from the top limb down;     *)
(* acc collects the quotient's limbs                                       *)
RECURSIVE NDivSmallAt(_, _, _, _, _)
NDivSmallAt(a, m, i, rem, acc) ==
    IF i = 0 THEN [q |-> NNorm(acc), r |-> rem]
    ELSE CHOOSE r \in { NDivSmallAt(a, m, i - 1, t % m, <<t \div m>> \o z) :
                        t \in {rem * Base + a[i]}, z \in {acc} } : TRUE

NDivSmall(p, q) ==
    CHOOSE r \in { NDivSmallAt(a, m, Len(a), 0, <<>>) : a \in {p}, m \in {q} } : TRUE

RECURSIVE NPowSmall(_, _)
NPowSmall(m, k) == IF k = 0 THEN <<1>> ELSE NMulSmall(NPowSmall(m, k - 1), m)

----------------------------------------------------------------------------
(* Signed integers: a sign and a magnitude; zero is never negative.        *)

ZMake(neg, p) == CHOOSE r \in { [neg |-> (neg /\ mag # <<>>), mag |-> mag] : mag \in {p} } : TRUE

ZFromInt(n) == IF n < 0 THEN ZMake(TRUE, NFromNat(-n)) ELSE ZMake(FALSE, NFromNat(n))

ZNeg(p) == CHOOSE r \in { ZMake(~a.neg, a.mag) : a \in {p} } : TRUE

ZAbs(p) == CHOOSE r \in { ZMake(FALSE, a.mag) : a \in {p} } : TRUE

ZSign(p) ==
    CHOOSE r \in { IF a.mag = <<>> THEN 0 ELSE IF a.neg THEN -1 ELSE 1 : a \in {p} } : TRUE

ZAdd(p, q) ==
    CHOOSE r \in { IF a.neg = b.neg THEN ZMake(a.neg, NAdd(a.mag, b.mag))
                   ELSE IF NCmp(a.mag, b.mag) >= 0 THEN ZMake(a.neg, NSub(a.mag, b.mag))
                   ELSE ZMake(b.neg, NSub(b.mag, a.mag)) : a \in {p}, b \in {q} } : TRUE

ZSub(a, b) == ZAdd(a, ZNeg(b))

ZMul(p, q) ==
    CHOOSE r \in { ZMake(a.neg # b.neg, NMul(a.mag, b.mag)) : a \in {p}, b \in {q} } : TRUE

ZCmp(a, b) == ZSign(ZSub(a, b))

----------------------------------------------------------------------------
(* Exact decimals: [n, e] is n * 10^-e.                                     *)

(* a * 10^k *)
RECURSIVE NTimesPow10(_, _)
NTimesPow10(p, q) ==
    CHOOSE r \in { IF k = 0 THEN a
                   ELSE IF k >= 3 THEN NTimesPow10(NMulSmall(a, 1000), k - 3)
                   ELSE NTimesPow10(NMulSmall(a, 10), k - 1) :
                   a \in {p}, k \in {q} } : TRUE

DMake(p, q) == CHOOSE r \in { [n |-> n, e |-> e] : n \in {p}, e \in {q} } : TRUE

DFromInt(i) == DMake(ZFromInt(i), 0)

(* the numerator of d at exponent e >= d.e *)
DNumAt(p, q) ==
    CHOOSE r \in { ZMake(d.n.neg, NTimesPow10(d.n.mag, e - d.e)) :
                   d \in {p}, e \in {q} } : TRUE

DAdd(p, q) ==
    CHOOSE r \in { DMake(ZAdd(DNumAt(a, Max2(a.e, b.e)), DNumAt(b, Max2(a.e, b.e))),
                         Max2(a.e, b.e)) : a \in {p}, b \in {q} } : TRUE

DNeg(p) == CHOOSE r \in { DMake(ZNeg(a.n), a.e) : a \in {p} } : TRUE

DSub(a, b) == DAdd(a, DNeg(b))

DMul(p, q) ==
    CHOOSE r \in { DMake(ZMul(a.n, b.n), a.e + b.e) : a \in {p}, b \in {q} } : TRUE

DSign(a) == ZSign(a.n)

DCmp(a, b) == DSign(DSub(a, b))

DLess(a, b) == DCmp(a, b) < 0

DLeq(a, b) == DCmp(a, b) <= 0

DAbs(p) == CHOOSE r \in { DMake(ZAbs(a.n), a.e) : a \in {p} } : TRUE

DMax(p, q) == CHOOSE r \in { IF DLess(a, b) THEN b ELSE a : a \in {p}, b \in {q} } : TRUE

(* a decimal literal m * 10^-e with a 32-bit m *)
DLit(m, e) == DMake(ZFromInt(m), e)

(* One canonical form per value, so that equal Scalars are equal states:   *)
(* trailing zero digits of the numerator are dropped against the exponent. *)
RECURSIVE DCanonMag(_, _)
DCanonMag(p, q) ==
    CHOOSE r \in
      { IF e = 0 \/ mag = <<>> THEN [mag |-> mag, e |-> (IF mag = <<>> THEN 0 ELSE e)]
        ELSE CHOOSE s \in { IF qr.r = 0 THEN DCanonMag(qr.q, e - 1)
                                        ELSE [mag |-> mag, e |-> e] :
                            qr \in {NDivSmall(mag, 10)} } : TRUE :
        mag \in {p}, e \in {q} } : TRUE

DCanon(p) ==
    CHOOSE r \in { DMake(ZMake(a.n.neg, c.mag), c.e) :
                   a \in {p}, c \in {DCanonMag(p.n.mag, p.e)} } : TRUE

----------------------------------------------------------------------------
(* IEEE 754 binary64, the Scalar of the finite-difference engine.  A       *)
(* number is [m, e], the value m * 2^e with m a signed integer.  The X     *)
(* operators are exact; Round53 rounds to nearest, ties to even, to a      *)
(* mantissa of 53 bits, 2^52 <= |m| < 2^53 (zero is [0, 0]), and the F     *)
(* operators are the operators of a double: the exact result, rounded.     *)
(* The exponent range is left out: no value of the model comes near        *)
(* overflow or the subnormal numbers.                                      *)

LimbBits == 2 * 6

RECURSIVE Pow2Small(_)
Pow2Small(k) == IF k = 0 THEN 1 ELSE 2 * Pow2Small(k - 1)

RECURSIVE BitLenSmall(_)
BitLenSmall(n) == IF n = 0 THEN 0 ELSE 1 + BitLenSmall(n \div 2)

NBitLen(p) ==
    CHOOSE r \in { IF a = <<>> THEN 0
                   ELSE LimbBits * (Len(a) - 1) + BitLenSmall(a[Len(a)]) : a \in {p} } : TRUE

(* a * 2^k *)
NShiftLeft(p, q) ==
    CHOOSE r \in { NShiftLimbs(NMulSmall(a, Pow2Small(k % LimbBits)), k \div LimbBits) :
                   a \in {p}, k \in {q} } : TRUE

(* floor(a / 2^k) *)
NShiftRight(p, q) ==
    CHOOSE r \in { IF k \div LimbBits >= Len(a) THEN <<>>
                   ELSE NDivSmall(SubSeq(a, (k \div LimbBits) + 1, Len(a)),
                                  Pow2Small(k % LimbBits)).q :
                   a \in {p}, k \in {q} } : TRUE

NIsOdd(a) == a # <<>> /\ a[1] % 2 = 1

XMake(p, q) == CHOOSE r \in { [m |-> m, e |-> e] : m \in {p}, e \in {q} } : TRUE

XZero == XMake(ZFromInt(0), 0)

XFromInt(n) == XMake(ZFromInt(n), 0)

(* the mantissa of a at the exponent e <= a.e *)
XMantAt(p, q) ==
    CHOOSE r \in { ZMake(a.m.neg, NShiftLeft(a.m.mag, a.e - e)) : a \in {p}, e \in {q} } : TRUE

XAddAt(a, b, e) == XMake(ZAdd(XMantAt(a, e), XMantAt(b, e)), e)

XAdd(p, q) ==
    CHOOSE r \in { XAddAt(a, b, IF a.e <= b.e THEN a.e ELSE b.e) :
                   a \in {p}, b \in {q} } : TRUE

XNeg(p) == CHOOSE r \in { XMake(ZNeg(a.m), a.e) : a \in {p} } : TRUE

XSub(a, b) == XAdd(a, XNeg(b))

XMul(p, q) ==
    CHOOSE r \in { XMake(ZMul(a.m, b.m), a.e + b.e) : a \in {p}, b \in {q} } : TRUE

(* a * 2^k *)
XScale(p, k) == CHOOSE r \in { XMake(a.m, a.e + k) : a \in {p} } : TRUE

XAbs(p) == CHOOSE r \in { XMake(ZAbs(a.m), a.e) : a \in {p} } : TRUE

XSign(a) == ZSign(a.m)

XLess(a, b) == XSign(XSub(a, b)) < 0

XLeq(a, b) == XSign(XSub(a, b)) <= 0

RECURSIVE XPow(_, _)
XPow(x, k) == IF k = 0 THEN XFromInt(1) ELSE XMul(XPow(x, k - 1), x)

(* q + 1 if up, and the carry out of 53 bits taken into the exponent *)
RoundedUp(neg, p, e, up) ==
    CHOOSE r \in { IF NBitLen(q) > 53 THEN XMake(ZMake(neg, NShiftRight(q, 1)), e + 1)
                                      ELSE XMake(ZMake(neg, q), e) :
                   q \in {IF up THEN NAdd(p, <<1>>) ELSE p} } : TRUE

(* mag has more than 53 bits; q1 is mag without its low s - 1 bits, so     *)
(* that the last bit of q1 is the rounding bit; sticky: the value has      *)
(* nonzero bits below those of mag                                         *)
RoundToEven(neg, mag, e, s, sticky) ==
    CHOOSE r \in
      { RoundedUp(neg, NShiftRight(q1, 1), e + s,
                  /\ NIsOdd(q1)
                  /\ \/ sticky
                     \/ NShiftLeft(q1, s - 1) # mag
                     \/ NIsOdd(NShiftRight(q1, 1))) :
        q1 \in {NShiftRight(mag, s - 1)} } : TRUE

(* z * 2^e (and, if sticky, a little more in magnitude) as a double *)
Round53(p, e, sticky) ==
    CHOOSE r \in
      { IF z.mag = <<>> THEN XZero
        ELSE CHOOSE w \in
          { IF L <= 53 THEN XMake(ZMake(z.neg, NShiftLeft(z.mag, 53 - L)), e - (53 - L))
                       ELSE RoundToEven(z.neg, z.mag, e, L - 53, sticky) :
            L \in {NBitLen(z.mag)} } : TRUE :
        z \in {p} } : TRUE

FRound(p) == CHOOSE r \in { Round53(a.m, a.e, FALSE) : a \in {p} } : TRUE

FFromInt(n) == FRound(XFromInt(n))

FAdd(a, b) == FRound(XAdd(a, b))

FSub(a, b) == FRound(XSub(a, b))

FMul(a, b) == FRound(XMul(a, b))

FNeg(a) == XNeg(a)

\* fabs
FAbs(a) == XAbs(a)

\* std::max(a, b):  (a < b) ? b : a
FMax(p, q) == CHOOSE r \in { IF XLess(a, b) THEN b ELSE a : a \in {p}, b \in {q} } : TRUE

(* Long division, one quotient bit a step: k more bits of rem / den        *)
(* (rem < den) appended to quo.                                            *)
RECURSIVE DivBits(_, _, _, _)
DivBits(rem, den, k, quo) ==
    IF k = 0 THEN [q |-> quo, r |-> rem]
    ELSE CHOOSE r \in
      { IF NCmp(r2, den) >= 0
        THEN DivBits(NSub(r2, den), den, j, NAdd(q2, <<1>>))
        ELSE DivBits(r2, den, j, q2) :
        r2 \in {NMulSmall(rem, 2)}, q2 \in {NMulSmall(quo, 2)}, j \in {k - 1} } : TRUE

(* 14 more bits at a time *)
RECURSIVE DivChunks(_, _, _)
DivChunks(d, den, chunks) ==
    IF chunks = 0 THEN d
    ELSE CHOOSE r \in { DivChunks(d2, den, chunks - 1) :
                        d2 \in {DivBits(d.r, den, 14, d.q)} } : TRUE

(* a / b of two doubles, b # 0: both mantissas have 53 bits, so the        *)
(* quotient of the mantissas lies in (1/2, 2) and 56 bits after the binary *)
(* point leave a rounding bit and a sticky remainder                       *)
FDiv(p, q) ==
    CHOOSE r \in
      { IF a.m.mag = <<>> THEN XZero
        ELSE CHOOSE w \in
          { Round53(ZMake(a.m.neg # b.m.neg, d.q), a.e - b.e - 56, d.r # <<>>) :
            d \in { IF NCmp(a.m.mag, b.m.mag) >= 0
                    THEN DivChunks([q |-> <<1>>, r |-> NSub(a.m.mag, b.m.mag)], b.m.mag, 4)
                    ELSE DivChunks([q |-> <<>>, r |-> a.m.mag], b.m.mag, 4) } } : TRUE :
        a \in {p}, b \in {q} } : TRUE

----------------------------------------------------------------------------
(* Bounds of the model.                                                     *)

\* the loop of the line search is followed for at most this many shrinks
MaxShrink == 33

(* The calls of the line search that are explored: objectives (two bowls   *)
(* with positive-definite A, one saddle, one linear function),             *)
(* points, directions (descent, non-descent and zero) and initial steps.   *)
LSObjectives ==
    { [A |-> <<<<2, 1>>, <<1, 2>>>>, b |-> <<0, 0>>],
      [A |-> <<<<2, 0>>, <<0, 3>>>>, b |-> <<1, 0>>],
      [A |-> <<<<1, 0>>, <<0, -1>>>>, b |-> <<0, 1>>],
      [A |-> <<<<0, 0>>, <<0, 0>>>>, b |-> <<1, 1>>] }

LSPoints == { <<0, 0>>, <<1, 0>>, <<-1, 1>> }

LSDirections ==
    { <<0, 0>>, <<-1, 0>>, <<0, -1>>, <<1, 0>>, <<1, 1>>, <<-1, 2>> }

LSAlphaInits == {1, 2}

(* The calls of the finite-difference engine that are explored.  The       *)
(* objectives: three quadratics with symmetric positive-definite A, the    *)
(* Rosenbrock function (1 - x1)^2 + 100 (x2 - x1^2)^2 and the cubic        *)
(* x1^3 + x1 x2.  The points are given in tenths; x = k/10 is the double   *)
(* nearest to it.                                                          *)
FDObjectives ==
    { [A |-> <<<<1, 0>>, <<0, 1>>>>, b |-> <<0, 0>>, extra |-> <<>>],
      [A |-> <<<<2, 1>>, <<1, 2>>>>, b |-> <<1, 0>>, extra |-> <<>>],
      [A |-> <<<<2, 0>>, <<0, 3>>>>, b |-> <<0, -1>>, extra |-> <<>>],
      [A |-> <<<<0, 0>>, <<0, 0>>>>, b |-> <<0, 0>>,
       extra |-> << [c |-> 1, p |-> <<0, 0>>], [c |-> -2, p |-> <<1, 0>>],
                    [c |-> 1, p |-> <<2, 0>>], [c |-> 100, p |-> <<0, 2>>],
                    [c |-> -200, p |-> <<2, 1>>], [c |-> 100, p |-> <<4, 0>>] >>],
      [A |-> <<<<0, 0>>, <<0, 0>>>>, b |-> <<0, 0>>,
       extra |-> << [c |-> 1, p |-> <<3, 0>>], [c |-> 1, p |-> <<1, 1>>] >>] }

FDPoints == { <<0, 0>>, <<10, 10>>, <<0, 10>>, <<-12, 7>>, <<3, 25>> }

FDAccuracies == 0..3

\* gradient() as Problem defines it, or overridden by a subclass (correctly,
\* or wrong by a factor of two)
FDOverrides == { "default", "analytic", "doubled" }

FDCalls ==
    { [op |-> "checkGradient", obj |-> o, x |-> x, accuracy |-> a, override |-> g] :
        o \in FDObjectives, x \in FDPoints, a \in FDAccuracies, g \in FDOverrides }
    \cup
    { [op |-> "finiteHessian", obj |-> o, x |-> x, accuracy |-> a, override |-> "default"] :
        o \in FDObjectives, x \in FDPoints, a \in {0, 3} }

\* an object receives at most this many setter calls
MaxCalls == 2

----------------------------------------------------------------------------
(* Bounds of a box constraint.                                              *)

NegInf == [inf |-> -1, v |-> 0]

PosInf == [inf |-> 1, v |-> 0]

Fin(n) == [inf |-> 0, v |-> n]

BoundValues == { NegInf, Fin(-1), Fin(0), Fin(2), PosInf }

\* the vectors the setters are called with, of n rows
BoundVectors(n) ==
    { [i \in 1..n |-> Fin(0)],
      [i \in 1..n |-> IF i = 1 THEN NegInf ELSE Fin(-1)],
      [i \in 1..n |-> IF i = 1 THEN Fin(2) ELSE PosInf] }

\* what a fixed-size VectorType member holds that no constructor
\* initialised: any Scalars
Uninitialised(n) == { [i \in 1..n |-> Fin(0)], [i \in 1..n |-> Fin(2)] }

\* the dimensions x.rows() of the domain of a Dim_ = Eigen::Dynamic problem
DynamicRows == {1, 2}

\* Dim_ of a fixed-size problem
FixedRows == {2}

----------------------------------------------------------------------------
VARIABLES
    \* Armijo<ProblemType, Ord>::linesearch, one call
    lsPc,        \* "idle" (not called), "loop" (at the while test), "done" (returned)
    lsOrd,       \* the template argument Ord: 1 (primary template) or 2
    lsObj,       \* the objective, [A, b]: value(x) = 0.5 x'Ax - b'x
    lsX,         \* the argument x
    lsDir,       \* the argument searchDir
    lsAlphaInit, \* the argument alpha_init (Ord 2 has none: alpha starts at 1.0)
    alpha,       \* the local alpha; the return value once lsPc = "done"
    f,           \* the local f
    f_in,        \* the local f_in
    Cache,       \* the local Cache
    shrinks      \* how many times the loop body has run

lsVars == <<lsPc, lsOrd, lsObj, lsX, lsDir, lsAlphaInit, alpha, f, f_in, Cache, shrinks>>

VARIABLES
    \* Problem::checkGradient or Problem::finiteHessian, one call
    fdPc,          \* "off", "idle" (about to be called) or "done" (returned)
    fdCall,        \* the call: the function, the objective and the arguments
    actual_grad,   \* checkGradient's local actual_grad
    expected_grad, \* checkGradient's local expected_grad
    fdResult,      \* checkGradient's return value
    hessian        \* finiteHessian's out-parameter hessian

fdVars == <<fdPc, fdCall, actual_grad, expected_grad, fdResult, hessian>>

VARIABLES
    bpClass,        \* "Problem" or "BoundedProblem"
    bpCtor,         \* "default" or "bounds": BoundedProblem(l, u)
    bpDynamic,      \* Dim_ == Eigen::Dynamic
    bpRows,         \* the number of coordinates of the problem's domain
    hasLowerBound_, \* Problem::hasLowerBound_
    hasUpperBound_, \* Problem::hasUpperBound_
    lowerBound_,    \* Problem::lowerBound_
    upperBound_,    \* Problem::upperBound_
    m_lowerBound,   \* BoundedProblem::m_lowerBound (<<>> on a Problem)
    m_upperBound,   \* BoundedProblem::m_upperBound (<<>> on a Problem)
    calls,          \* the setter calls made so far, in order
    report          \* the last element read through lowerBound()/upperBound()

bpVars == <<bpClass, bpCtor, bpDynamic, bpRows, hasLowerBound_, hasUpperBound_,
            lowerBound_, upperBound_, m_lowerBound, m_upperBound, calls, report>>

vars == <<lsVars, fdVars, bpVars>>

----------------------------------------------------------------------------
(* Vectors and matrices over the two coordinates of the model's domain.     *)

Coords == {1, 2}

(* Eigen: VectorType of Scalars from a tuple of integers *)
VecFromInts(v) == <<DFromInt(v[1]), DFromInt(v[2])>>

(* x + alpha * searchDir *)
VecAxpy(p, q, w) ==
    CHOOSE r \in { <<DAdd(x[1], DMul(a, d[1])), DAdd(x[2], DMul(a, d[2]))>> :
                   x \in {p}, a \in {q}, d \in {w} } : TRUE

(* grad.dot(searchDir) *)
Dot(p, q) ==
    CHOOSE r \in { DAdd(DMul(u[1], v[1]), DMul(u[2], v[2])) : u \in {p}, v \in {q} } : TRUE

(* hessian * searchDir *)
MatVec(p, q) ==
    CHOOSE r \in { <<DAdd(DMul(M[1][1], v[1]), DMul(M[1][2], v[2])),
                     DAdd(DMul(M[2][1], v[1]), DMul(M[2][2], v[2]))>> :
                   M \in {p}, v \in {q} } : TRUE

MatFromInts(A) ==
    << <<DFromInt(A[1][1]), DFromInt(A[1][2])>>, <<DFromInt(A[2][1]), DFromInt(A[2][2])>> >>

----------------------------------------------------------------------------
(* The objective handed to the line search: a quadratic                    *)
(* value(x) = 0.5 x'Ax - b'x as in examples/linearregression.cpp, whose    *)
(* gradient() is overridden by the analytic gradient Ax - b as it is       *)
(* there, and whose hessian() is overridden by the analytic Hessian A.     *)

Half == DLit(5, 1)

QValue(obj, p) ==
    CHOOSE r \in { DSub(DMul(Half, Dot(x, MatVec(MatFromInts(obj.A), x))),
                        Dot(VecFromInts(obj.b), x)) : x \in {p} } : TRUE

QGradient(obj, x) ==
    CHOOSE r \in { <<DSub(Ax[1], DFromInt(obj.b[1])), DSub(Ax[2], DFromInt(obj.b[2]))>> :
                   Ax \in {MatVec(MatFromInts(obj.A), x)} } : TRUE

QHessian(obj, x) == MatFromInts(obj.A)

----------------------------------------------------------------------------
(* Armijo line search, armijo.h.                                           *)

\* const Scalar c = 0.2;
Armijo_c == DLit(2, 1)

\* const Scalar rho = 0.9;
Armijo_rho == DLit(9, 1)

\* (mutant of CacheOrd1: the factor c is dropped)
CacheOrd1_NoC(obj, x, d) == Dot(QGradient(obj, x), d)

\* Order 1:  Cache = c * grad.dot(searchDir)
CacheOrd1(obj, x, d) == DMul(Armijo_c, Dot(QGradient(obj, x), d))

\* Order 2:  Cache = c * grad.dot(searchDir)
\*                   + 0.5 * c*c * searchDir.transpose() * (hessian * searchDir)
CacheOrd2(obj, x, d) ==
    DAdd(DMul(Armijo_c, Dot(QGradient(obj, x), d)),
         DMul(DMul(DMul(Half, Armijo_c), Armijo_c), Dot(d, MatVec(QHessian(obj, x), d))))

\* (mutant of LoopCond: the loop also ends at a minimum step of 1e-1)
LoopCond_MinStep(fv, fin, a, cache) ==
    DLess(DAdd(fin, DMul(a, cache)), fv) /\ DLess(DLit(1, 1), a)

\* the while test:  f > f_in + alpha * Cache
LoopCond(fv, fin, a, cache) == DLess(DAdd(fin, DMul(a, cache)), fv)

\* lines 24-31 (order 1) and 60-70 (order 2): everything before the loop
linesearch_enter(ord, obj, x0, d0, alpha_init) ==
    /\ lsPc = "idle"
    /\ UNCHANGED <<fdVars, bpVars>>
    /\ LET x  == VecFromInts(x0)
           d  == VecFromInts(d0)
           a0 == IF ord = 1 THEN DFromInt(alpha_init) ELSE DFromInt(1)
       IN  /\ alpha' = a0
           /\ f' = DCanon(QValue(obj, VecAxpy(x, a0, d)))
           /\ f_in' = DCanon(QValue(obj, x))
           /\ Cache' = DCanon(IF ord = 1 THEN CacheOrd1(obj, x, d) ELSE CacheOrd2(obj, x, d))
    /\ lsOrd' = ord
    /\ lsObj' = obj
    /\ lsX' = x0
    /\ lsDir' = d0
    /\ lsAlphaInit' = (IF ord = 1 THEN alpha_init ELSE 1)
    /\ shrinks' = 0
    /\ lsPc' = "loop"

\* lines 33-36 / 72-75: the test succeeds and the body runs once
linesearch_shrink ==
    /\ lsPc = "loop"
    /\ UNCHANGED <<fdVars, bpVars>>
    /\ LoopCond(f, f_in, alpha, Cache)
    /\ shrinks < MaxShrink
    /\ alpha' = DCanon(DMul(alpha, Armijo_rho))
    /\ f' = DCanon(QValue(lsObj, VecAxpy(VecFromInts(lsX), alpha', VecFromInts(lsDir))))
    /\ shrinks' = shrinks + 1
    /\ UNCHANGED <<lsPc, lsOrd, lsObj, lsX, lsDir, lsAlphaInit, f_in, Cache>>

\* line 38 / 76: the test fails and alpha is returned
linesearch_return ==
    /\ lsPc = "loop"
    /\ UNCHANGED <<fdVars, bpVars>>
    /\ ~LoopCond(f, f_in, alpha, Cache)
    /\ lsPc' = "done"
    /\ UNCHANGED <<lsOrd, lsObj, lsX, lsDir, lsAlphaInit, alpha, f, f_in, Cache, shrinks>>

----------------------------------------------------------------------------
(* Objectives of the finite-difference engine: polynomials in two          *)
(* coordinates,                                                            *)
(*     value(x) = 0.5 x'Ax - b'x + sum of extra[k].c * x1^p1 * x2^p2,       *)
(* the quadratic of examples/linearregression.cpp plus higher terms.  The  *)
(* subclass's value() and its analytic gradient() return the correctly     *)
(* rounded double of the exact polynomial, the most accurate a subclass    *)
(* can be.                                                                 *)

Term(c, p1, p2) == [c |-> c, p |-> <<p1, p2>>]

\* twice the value, as one list of terms
Terms(obj) ==
    << Term(obj.A[1][1], 2, 0), Term(obj.A[1][2] + obj.A[2][1], 1, 1),
       Term(obj.A[2][2], 0, 2), Term(-2 * obj.b[1], 1, 0), Term(-2 * obj.b[2], 0, 1) >>
    \o [k \in 1..Len(obj.extra) |-> Term(2 * obj.extra[k].c, obj.extra[k].p[1], obj.extra[k].p[2])]

\* d/dx_d of a list of terms
TermsDiff(terms, d) ==
    [k \in 1..Len(terms) |->
        [c |-> terms[k].c * terms[k].p[d],
         p |-> [terms[k].p EXCEPT ![d] = IF @ > 0 THEN @ - 1 ELSE 0]]]

RECURSIVE TermsSum(_, _, _)
TermsSum(terms, x, k) ==
    IF k = 0 THEN XZero
    ELSE XAdd(TermsSum(terms, x, k - 1),
              XMul(XFromInt(terms[k].c),
                   XMul(XPow(x[1], terms[k].p[1]), XPow(x[2], terms[k].p[2]))))

\* half the sum of the terms at x, exactly
TermsValue(terms, p) ==
    CHOOSE r \in { XScale(TermsSum(terms, x, Len(terms)), -1) : x \in {p} } : TRUE

\* Scalar value(const VectorType &x)
value(obj, x) == FRound(TermsValue(Terms(obj), x))

\* the exact partial derivative d value / d x_d
ExactPartial(obj, x, d) == TermsValue(TermsDiff(Terms(obj), d), x)

\* a subclass's override of gradient(): the analytic gradient
analyticGradient(obj, x) ==
    << FRound(ExactPartial(obj, x, 1)), FRound(ExactPartial(obj, x, 2)) >>

\* xx[d] += delta
VecBump(p, d, delta) ==
    CHOOSE r \in { [x EXCEPT ![d] = FAdd(x[d], delta)] : x \in {p} } : TRUE

----------------------------------------------------------------------------
(* Problem::finiteGradient, problem.h.                                     *)

\* const Scalar eps = 2.2204e-6;
finiteGradient_eps == FDiv(FFromInt(22204), FMul(FFromInt(100000), FFromInt(100000)))

\* (mutant of coeff: one coefficient of the 8-point stencil is wrong)
coeff_Swapped(accuracy) ==
    CASE accuracy = 0 -> <<1, -1>>
      [] accuracy = 1 -> <<1, -8, 8, -1>>
      [] accuracy = 2 -> <<-1, 9, -45, 45, -9, 1>>
      [] accuracy = 3 -> <<3, -32, 186, -672, 672, -168, 32, -3>>

coeff(accuracy) ==
    CASE accuracy = 0 -> <<1, -1>>
      [] accuracy = 1 -> <<1, -8, 8, -1>>
      [] accuracy = 2 -> <<-1, 9, -45, 45, -9, 1>>
      [] accuracy = 3 -> <<3, -32, 168, -672, 672, -168, 32, -3>>

coeff2(accuracy) ==
    CASE accuracy = 0 -> <<1, -1>>
      [] accuracy = 1 -> <<-2, -1, 1, 2>>
      [] accuracy = 2 -> <<-3, -2, -1, 1, 2, 3>>
      [] accuracy = 3 -> <<-4, -3, -2, -1, 1, 2, 3, 4>>

dd(accuracy) == <<2, 12, 60, 840>>[accuracy + 1]

\* finiteDiff[d] after the first s rounds of the inner loop
RECURSIVE finiteDiff(_, _, _, _, _)
finiteDiff(obj, x, d, accuracy, s) ==
    IF s = 0 THEN XZero
    ELSE FAdd(finiteDiff(obj, x, d, accuracy, s - 1),
              FMul(FFromInt(coeff(accuracy)[s]),
                   value(obj, VecBump(x, d, FMul(FFromInt(coeff2(accuracy)[s]),
                                                 finiteGradient_eps)))))

\* finiteDiff[d] /= (dd[accuracy] * eps)
finiteGradientAt(obj, x, d, accuracy) ==
    FDiv(finiteDiff(obj, x, d, accuracy, 2 * (accuracy + 1)),
         FMul(FFromInt(dd(accuracy)), finiteGradient_eps))

finiteGradient(obj, x, accuracy) ==
    << finiteGradientAt(obj, x, 1, accuracy), finiteGradientAt(obj, x, 2, accuracy) >>

\* virtual void gradient(x, grad): the default, finiteGradient(x, grad) at
\* accuracy 0, or a subclass's override: the analytic gradient, or an
\* analytic gradient that is wrong by a factor of two
gradient(obj, x, override) ==
    CASE override = "default" -> finiteGradient(obj, x, 0)
      [] override = "analytic" -> analyticGradient(obj, x)
      [] override = "doubled" ->
            << FMul(FFromInt(2), analyticGradient(obj, x)[1]),
               FMul(FFromInt(2), analyticGradient(obj, x)[2]) >>

----------------------------------------------------------------------------
(* Problem::checkGradient, problem.h.                                      *)

\* the literal 1e-2
checkGradient_tol == FDiv(FFromInt(1), FFromInt(100))

\* Scalar scale = std::max((std::max(fabs(actual_grad[d]), fabs(expected_grad[d]))), 1.);
checkGradient_scale(g, n) == FMax(FMax(FAbs(g), FAbs(n)), FFromInt(1))

\* if (fabs(actual_grad[d] - expected_grad[d]) > 1e-2 * scale)
checkGradient_mismatch(g, n) ==
    XLess(FMul(checkGradient_tol, checkGradient_scale(g, n)), FAbs(FSub(g, n)))

\* (mutant of checkGradient_loop: only the coordinate d is compared)
checkGradient_loop_OneCoordinate(actual, expected, d) ==
    ~checkGradient_mismatch(actual[d], expected[d])

\* the for loop from coordinate d on: false at the first mismatch, true
\* when the loop runs out
RECURSIVE checkGradient_loop(_, _, _)
checkGradient_loop(actual, expected, d) ==
    IF d > Len(actual) THEN TRUE
    ELSE IF checkGradient_mismatch(actual[d], expected[d]) THEN FALSE
    ELSE checkGradient_loop(actual, expected, d + 1)

----------------------------------------------------------------------------
(* Problem::finiteHessian, problem.h.                                      *)

\* const Scalar eps = std::numeric_limits<Scalar>::epsilon()*10e7;
finiteHessian_eps == FMul(FRound(XMake(ZFromInt(1), -52)), FFromInt(100000000))

\* xx[i] += di*eps;  xx[j] += dj*eps;  value(xx)
valueAtOffsets(obj, x, i, di, j, dj) ==
    value(obj, VecBump(VecBump(x, i, FMul(FFromInt(di), finiteHessian_eps)),
                       j, FMul(FFromInt(dj), finiteHessian_eps)))

\* accuracy == 0, lines 169-179
hessianEntry0(obj, p, i, j) ==
    CHOOSE r \in
      { FDiv(FAdd(FSub(FSub(value(obj, xx1), value(obj, xx2)), value(obj, xx3)),
                  value(obj, x)),
             FMul(finiteHessian_eps, finiteHessian_eps)) :
        x \in {p},
        xx1 \in {VecBump(VecBump(p, i, finiteHessian_eps), j, finiteHessian_eps)},
        xx2 \in {VecBump(VecBump(VecBump(p, i, finiteHessian_eps), j, finiteHessian_eps),
                         j, FNeg(finiteHessian_eps))},
        xx3 \in {VecBump(VecBump(VecBump(VecBump(VecBump(p, i, finiteHessian_eps),
                                                 j, finiteHessian_eps),
                                         j, FNeg(finiteHessian_eps)),
                                 j, finiteHessian_eps),
                         i, FNeg(finiteHessian_eps))} } : TRUE

\* accuracy > 0, lines 196-220
hessianEntryN(obj, x, i, j) ==
    LET v(di, dj) == valueAtOffsets(obj, x, i, di, j, dj)
        term_1 == FAdd(FAdd(FAdd(FAdd(XZero, v(1, -2)), v(2, -1)), v(-2, 1)), v(-1, 2))
        term_2 == FAdd(FAdd(FAdd(FAdd(XZero, v(-1, -2)), v(-2, -1)), v(1, 2)), v(2, 1))
        term_3 == FSub(FSub(FAdd(FAdd(XZero, v(2, -2)), v(-2, 2)), v(-2, -2)), v(2, 2))
        term_4 == FSub(FSub(FAdd(FAdd(XZero, v(-1, -1)), v(1, 1)), v(1, -1)), v(-1, 1))
    IN  FDiv(FAdd(FAdd(FAdd(FMul(FFromInt(-63), term_1), FMul(FFromInt(63), term_2)),
                       FMul(FFromInt(44), term_3)),
                  FMul(FFromInt(74), term_4)),
             FMul(FMul(FFromInt(600), finiteHessian_eps), finiteHessian_eps))

hessianEntry(obj, x, i, j, accuracy) ==
    IF accuracy = 0 THEN hessianEntry0(obj, x, i, j) ELSE hessianEntryN(obj, x, i, j)

----------------------------------------------------------------------------
(* One call of the finite-difference engine.                               *)

PointFromTenths(v) ==
    << FDiv(FFromInt(v[1]), FFromInt(10)), FDiv(FFromInt(v[2]), FFromInt(10)) >>

ZeroVector == << XZero, XZero >>

ZeroMatrix == << ZeroVector, ZeroVector >>

NoCall ==
    [op |-> "none", obj |-> [A |-> <<<<0, 0>>, <<0, 0>>>>, b |-> <<0, 0>>, extra |-> <<>>],
     x |-> <<0, 0>>, accuracy |-> 0, override |-> "default"]

\* virtual bool checkGradient(const VectorType &x, int accuracy = 3)
checkGradient ==
    /\ fdPc = "idle"
    /\ fdCall.op = "checkGradient"
    /\ actual_grad' = gradient(fdCall.obj, PointFromTenths(fdCall.x), fdCall.override)
    /\ expected_grad' = finiteGradient(fdCall.obj, PointFromTenths(fdCall.x), fdCall.accuracy)
    /\ fdResult' = checkGradient_loop(actual_grad', expected_grad', 1)
    /\ fdPc' = "done"
    /\ UNCHANGED <<fdCall, hessian>>
    /\ UNCHANGED <<lsVars, bpVars>>

\* virtual void finiteHessian(const VectorType &x, SquareMatrixType &hessian,
\*                            int accuracy = 0)
finiteHessian ==
    /\ fdPc = "idle"
    /\ fdCall.op = "finiteHessian"
    /\ hessian' =
         [i \in Coords |-> [j \in Coords |->
             hessianEntry(fdCall.obj, PointFromTenths(fdCall.x), i, j, fdCall.accuracy)]]
    /\ fdPc' = "done"
    /\ UNCHANGED <<fdCall, actual_grad, expected_grad, fdResult>>
    /\ UNCHANGED <<lsVars, bpVars>>

----------------------------------------------------------------------------
(* Box constraints: Problem (problem.h) and BoundedProblem                 *)
(* (boundedproblem.h).                                                     *)
(*                                                                         *)
(* One object, used through its own class: bpClass is the class whose      *)
(* members the calls name, so on a BoundedProblem the setters and the      *)
(* accessors are BoundedProblem's (they hide Problem's, which are not      *)
(* virtual), and hasLowerBound()/hasUpperBound() are the inherited ones.   *)
(* A bound is a Scalar that may be infinite: [inf, v] is -infinity,        *)
(* the finite v, or +infinity as inf is -1, 0, 1.  A vector is a tuple;    *)
(* a VectorType of Eigen::Dynamic size that was never assigned has no      *)
(* rows, <<>>.                                                             *)

NoReport == [call |-> "none", i |-> 0, kind |-> "none", val |-> Fin(0)]

Call(op, lb, ub) == [op |-> op, lb |-> lb, ub |-> ub]

\* bool hasLowerBound() { return hasLowerBound_; }
hasLowerBound == hasLowerBound_

\* bool hasUpperBound() { return hasUpperBound_; }
hasUpperBound == hasUpperBound_

\* lowerBound(): Problem's returns lowerBound_, BoundedProblem's m_lowerBound
lowerBound == IF bpClass = "BoundedProblem" THEN m_lowerBound ELSE lowerBound_

\* upperBound(): Problem's returns upperBound_, BoundedProblem's m_upperBound
upperBound == IF bpClass = "BoundedProblem" THEN m_upperBound ELSE upperBound_

\* Problem() {}: the flags false by their initialisers, the vectors
\* default-constructed
Problem_ctor(dynamic, rows) ==
    /\ hasLowerBound_ = FALSE
    /\ hasUpperBound_ = FALSE
    /\ lowerBound_ \in (IF dynamic THEN {<<>>} ELSE Uninitialised(rows))
    /\ upperBound_ \in (IF dynamic THEN {<<>>} ELSE Uninitialised(rows))

\* m_lowerBound.setConstant(c) on the default-constructed member: every
\* row the vector has is set, and a dynamic vector has none
setConstant(dynamic, rows, c) == IF dynamic THEN <<>> ELSE [i \in 1..rows |-> c]

\* BoundedProblem() : Superclass()
BoundedProblem_ctor(dynamic, rows) ==
    /\ Problem_ctor(dynamic, rows)
    /\ m_lowerBound = setConstant(dynamic, rows, NegInf)
    /\ m_upperBound = setConstant(dynamic, rows, PosInf)

\* BoundedProblem(const TVector &l, const TVector &u)
BoundedProblem_ctor_bounds(dynamic, rows, l, u) ==
    /\ Problem_ctor(dynamic, rows)
    /\ m_lowerBound = l
    /\ m_upperBound = u

\* (mutant of Problem_setLowerBound: the other flag is raised as well)
Problem_setLowerBound_BothFlags(lb) ==
    /\ lowerBound_' = lb
    /\ hasLowerBound_' = TRUE
    /\ hasUpperBound_' = TRUE
    /\ UNCHANGED <<upperBound_, m_lowerBound, m_upperBound>>

\* void Problem::setLowerBound(VectorType lb)
Problem_setLowerBound(lb) ==
    /\ lowerBound_' = lb
    /\ hasLowerBound_' = TRUE
    /\ UNCHANGED <<hasUpperBound_, upperBound_, m_lowerBound, m_upperBound>>

\* void Problem::setUpperBound(VectorType ub)
Problem_setUpperBound(ub) ==
    /\ upperBound_' = ub
    /\ hasUpperBound_' = TRUE
    /\ UNCHANGED <<hasLowerBound_, lowerBound_, m_lowerBound, m_upperBound>>

\* void Problem::setBoxConstraint(VectorType lb, VectorType ub):
\* setLowerBound(lb); setUpperBound(ub);
Problem_setBoxConstraint(lb, ub) ==
    /\ lowerBound_' = lb
    /\ hasLowerBound_' = TRUE
    /\ upperBound_' = ub
    /\ hasUpperBound_' = TRUE
    /\ UNCHANGED <<m_lowerBound, m_upperBound>>

\* (mutant of BoundedProblem_setLowerBound: the inherited setter runs too)
BoundedProblem_setLowerBound_Superclass(lb) ==
    /\ m_lowerBound' = lb
    /\ lowerBound_' = lb
    /\ hasLowerBound_' = TRUE
    /\ UNCHANGED <<hasUpperBound_, upperBound_, m_upperBound>>

\* void BoundedProblem::setLowerBound(const TVector &lb) { m_lowerBound = lb; }
BoundedProblem_setLowerBound(lb) ==
    /\ m_lowerBound' = lb
    /\ UNCHANGED <<hasLowerBound_, hasUpperBound_, lowerBound_, upperBound_, m_upperBound>>

\* void BoundedProblem::setUpperBound(const TVector &ub) { m_upperBound = ub; }
BoundedProblem_setUpperBound(ub) ==
    /\ m_upperBound' = ub
    /\ UNCHANGED <<hasLowerBound_, hasUpperBound_, lowerBound_, upperBound_, m_lowerBound>>

\* void BoundedProblem::setBoxConstraint(TVector lb, TVector ub):
\* setLowerBound(lb); setUpperBound(ub);  (BoundedProblem's own)
BoundedProblem_setBoxConstraint(lb, ub) ==
    /\ m_lowerBound' = lb
    /\ m_upperBound' = ub
    /\ UNCHANGED <<hasLowerBound_, hasUpperBound_, lowerBound_, upperBound_>>

\* a call is made and logged
Logged(op, lb, ub) ==
    /\ Len(calls) < MaxCalls
    /\ calls' = Append(calls, Call(op, lb, ub))
    /\ report' = NoReport
    /\ UNCHANGED <<bpClass, bpCtor, bpDynamic, bpRows>>
    /\ UNCHANGED <<lsVars, fdVars>>

setLowerBound(lb) ==
    /\ Logged("setLowerBound", lb, <<>>)
    /\ IF bpClass = "BoundedProblem" THEN BoundedProblem_setLowerBound(lb)
                                     ELSE Problem_setLowerBound(lb)

setUpperBound(ub) ==
    /\ Logged("setUpperBound", <<>>, ub)
    /\ IF bpClass = "BoundedProblem" THEN BoundedProblem_setUpperBound(ub)
                                     ELSE Problem_setUpperBound(ub)

setBoxConstraint(lb, ub) ==
    /\ Logged("setBoxConstraint", lb, ub)
    /\ IF bpClass = "BoundedProblem" THEN BoundedProblem_setBoxConstraint(lb, ub)
                                     ELSE Problem_setBoxConstraint(lb, ub)

(* v[i] of a vector returned by an accessor.  Inside the vector it is the  *)
(* element.  Outside it (a dynamic vector that has fewer rows than the     *)
(* domain) Eigen's operator[] is out of range: eigen_assert aborts the     *)
(* program, and with assertions compiled out the read is undefined and     *)
(* yields any Scalar.                                                      *)
ElementOutcomes(v, i) ==
    IF i <= Len(v)
    THEN { [kind |-> "value", val |-> v[i]] }
    ELSE { [kind |-> "abort", val |-> Fin(0)] }
         \cup { [kind |-> "value", val |-> s] : s \in BoundValues }

\* lowerBound()[i]
read_lowerBound(i) ==
    /\ i \in 1..bpRows
    /\ \E out \in ElementOutcomes(lowerBound, i) :
          report' = [call |-> "lowerBound", i |-> i, kind |-> out.kind, val |-> out.val]
    /\ UNCHANGED <<bpClass, bpCtor, bpDynamic, bpRows, hasLowerBound_, hasUpperBound_,
                   lowerBound_, upperBound_, m_lowerBound, m_upperBound, calls>>
    /\ UNCHANGED <<lsVars, fdVars>>

\* upperBound()[i]
read_upperBound(i) ==
    /\ i \in 1..bpRows
    /\ \E out \in ElementOutcomes(upperBound, i) :
          report' = [call |-> "upperBound", i |-> i, kind |-> out.kind, val |-> out.val]
    /\ UNCHANGED <<bpClass, bpCtor, bpDynamic, bpRows, hasLowerBound_, hasUpperBound_,
                   lowerBound_, upperBound_, m_lowerBound, m_upperBound, calls>>
    /\ UNCHANGED <<lsVars, fdVars>>

\* a freshly constructed object of either class, of fixed or dynamic size
BPInit ==
    /\ bpClass \in {"Problem", "BoundedProblem"}
    /\ bpDynamic \in BOOLEAN
    /\ bpRows \in (IF bpDynamic THEN DynamicRows ELSE FixedRows)
    /\ bpCtor \in (IF bpClass = "BoundedProblem" THEN {"default", "bounds"} ELSE {"default"})
    /\ IF bpClass = "Problem"
       THEN /\ Problem_ctor(bpDynamic, bpRows)
            /\ m_lowerBound = <<>>
            /\ m_upperBound = <<>>
       ELSE IF bpCtor = "default"
       THEN BoundedProblem_ctor(bpDynamic, bpRows)
       ELSE \E l \in BoundVectors(bpRows), u \in BoundVectors(bpRows) :
               BoundedProblem_ctor_bounds(bpDynamic, bpRows, l, u)
    /\ calls = <<>>
    /\ report = NoReport

BPNext ==
    \/ \E lb \in BoundVectors(bpRows) : setLowerBound(lb)
    \/ \E ub \in BoundVectors(bpRows) : setUpperBound(ub)
    \/ \E lb \in BoundVectors(bpRows), ub \in BoundVectors(bpRows) : setBoxConstraint(lb, ub)
    \/ \E i \in 1..bpRows : read_lowerBound(i)
    \/ \E i \in 1..bpRows : read_upperBound(i)

----------------------------------------------------------------------------
(* The specifications.                                                     *)

LSInit ==
    /\ lsPc = "idle"
    /\ lsOrd = 1
    /\ lsObj = [A |-> <<<<0, 0>>, <<0, 0>>>>, b |-> <<0, 0>>]
    /\ lsX = <<0, 0>>
    /\ lsDir = <<0, 0>>
    /\ lsAlphaInit = 1
    /\ alpha = DFromInt(1)
    /\ f = DFromInt(0)
    /\ f_in = DFromInt(0)
    /\ Cache = DFromInt(0)
    /\ shrinks = 0

\* no call of the finite-difference engine
FDOff ==
    /\ fdPc = "off"
    /\ fdCall = NoCall
    /\ actual_grad = ZeroVector
    /\ expected_grad = ZeroVector
    /\ fdResult = FALSE
    /\ hessian = ZeroMatrix

\* one call about to be made; SquareMatrixType::Zero and the untouched
\* locals stand at zero
FDInit ==
    /\ fdPc = "idle"
    /\ fdCall \in FDCalls
    /\ actual_grad = ZeroVector
    /\ expected_grad = ZeroVector
    /\ fdResult = FALSE
    /\ hessian = ZeroMatrix

\* one object that is never touched
BPOff ==
    /\ bpClass = "Problem"
    /\ bpCtor = "default"
    /\ bpDynamic = TRUE
    /\ bpRows = 1
    /\ Problem_ctor(TRUE, 1)
    /\ m_lowerBound = <<>>
    /\ m_upperBound = <<>>
    /\ calls = <<>>
    /\ report = NoReport

LSNext ==
    \/ \E ord \in {1, 2}, obj \in LSObjectives, x0 \in LSPoints, d0 \in LSDirections,
          a0 \in LSAlphaInits :
          linesearch_enter(ord, obj, x0, d0, a0)
    \/ linesearch_shrink
    \/ linesearch_return

\* before a call of the line search; nothing else is in use
LSStart == LSInit /\ FDOff /\ BPOff

SpecLS == LSStart /\ [][LSNext]_vars

(* The loop can always take its next step (a sequential program keeps      *)
(* running): weak fairness of both outcomes of the while test.             *)
FairSpecLS ==
    SpecLS /\ WF_vars(linesearch_shrink) /\ WF_vars(linesearch_return)

FDNext ==
    \/ checkGradient
    \/ finiteHessian

\* before a call of checkGradient or finiteHessian
FDStart == LSInit /\ FDInit /\ BPOff

SpecFD == FDStart /\ [][FDNext]_vars

\* a freshly constructed problem object
BPStart == LSInit /\ FDOff /\ BPInit

SpecBounds == BPStart /\ [][BPNext]_vars

----------------------------------------------------------------------------
(* The call being made, read from its arguments.                            *)

LSx == VecFromInts(lsX)

LSd == VecFromInts(lsDir)

\* gradient(x) . d
LSSlope == Dot(QGradient(lsObj, LSx), LSd)

\* d' A d
LSCurvature == Dot(LSd, MatVec(QHessian(lsObj, LSx), LSd))

\* alpha_init * rho^j
AlphaAt(j) == DMake(ZMake(FALSE, NMulSmall(NPowSmall(9, j), lsAlphaInit)), j)

\* A symmetric positive definite: the objective is a quadratic bowl
IsBowl(obj) ==
    /\ obj.A[1][1] > 0
    /\ obj.A[1][1] * obj.A[2][2] - obj.A[1][2] * obj.A[2][1] > 0

\* A positive semidefinite: the objective is convex
IsConvex(obj) ==
    /\ obj.A[1][1] >= 0
    /\ obj.A[2][2] >= 0
    /\ obj.A[1][1] * obj.A[2][2] - obj.A[1][2] * obj.A[2][1] >= 0

\* value(x + a*d) <= value(x) + a * c * (gradient(x) . d), c = 0.2
SufficientDecrease(a) ==
    DLeq(QValue(lsObj, VecAxpy(LSx, a, LSd)),
         DAdd(QValue(lsObj, LSx), DMul(a, DMul(DLit(2, 1), LSSlope))))

(* C1: when the order-1 search returns, it returns alpha_init * rho^k for  *)
(* the first k at which value(x + alpha*d) <= value(x) + alpha*c*(g . d)   *)
(* holds (c = 0.2, rho = 0.9): the condition holds at the returned step    *)
(* and is violated at every earlier step of the sequence.                  *)
C1_FirstArmijoStep ==
    (lsPc = "done" /\ lsOrd = 1) =>
        /\ DCmp(alpha, AlphaAt(shrinks)) = 0
        /\ SufficientDecrease(AlphaAt(shrinks))
        /\ \A j \in 0..(shrinks - 1) : ~SufficientDecrease(AlphaAt(j))

C1_Witness == lsPc = "done" /\ lsOrd = 1 /\ shrinks >= 3

(* C2: for a quadratic bowl and a descent direction (g . d < 0), the       *)
(* search of either order returns 0 < alpha <= alpha_init with             *)
(* value(x + alpha*d) <= value(x).                                         *)
C2_BowlDecrease ==
    (lsPc = "done" /\ IsBowl(lsObj) /\ DSign(LSSlope) < 0) =>
        /\ DSign(alpha) > 0
        /\ DLeq(alpha, DFromInt(lsAlphaInit))
        /\ DLeq(QValue(lsObj, VecAxpy(LSx, alpha, LSd)), QValue(lsObj, LSx))

(* What does hold of C2: the order-1 search on a bowl along a descent      *)
(* direction returns a step that does not increase the objective.          *)
C2_Order1Only ==
    (lsPc = "done" /\ lsOrd = 1 /\ IsBowl(lsObj) /\ DSign(LSSlope) < 0) =>
        /\ DSign(alpha) > 0
        /\ DLeq(alpha, DFromInt(lsAlphaInit))
        /\ DLeq(QValue(lsObj, VecAxpy(LSx, alpha, LSd)), QValue(lsObj, LSx))

\* the quadratic is bounded below on the ray x + a*d, a >= 0
BoundedBelowOnRay ==
    \/ DSign(LSCurvature) > 0
    \/ DSign(LSCurvature) = 0 /\ DSign(LSSlope) >= 0

ReturnsWithinBound == lsPc = "done" => shrinks <= MaxShrink - 2

\* order 1, a convex objective and a direction that is not a descent
\* direction: the sufficient-decrease condition fails at every alpha > 0
NonDescentOnConvex ==
    /\ lsPc # "idle"
    /\ lsOrd = 1
    /\ IsConvex(lsObj)
    /\ DSign(LSSlope) >= 0
    /\ (DSign(LSSlope) > 0 \/ DSign(LSCurvature) > 0)

\* the test of the order being run, evaluated afresh at the current alpha
ConditionViolated ==
    DLess(DAdd(QValue(lsObj, LSx),
               DMul(alpha, IF lsOrd = 1 THEN CacheOrd1(lsObj, LSx, LSd)
                                        ELSE CacheOrd2(lsObj, LSx, LSd))),
          QValue(lsObj, VecAxpy(LSx, alpha, LSd)))

(* C9: the loop has no iteration cap and no minimum step.  While the       *)
(* condition is violated the only step of the search is another            *)
(* multiplication of alpha by rho (no return, no failure), whatever the    *)
(* number of shrinks so far; and for a non-descent direction on a convex   *)
(* objective, where it is violated at every step length, the search never  *)
(* returns.                                                                *)
C9_NoCapNoMinStep ==
    /\ [][(lsPc = "loop" /\ ConditionViolated) =>
            (lsPc' = "loop" /\ DCmp(alpha', DMul(alpha, DLit(9, 1))) = 0)]_lsVars
    /\ [](NonDescentOnConvex => (lsPc = "loop" /\ ConditionViolated))

C9_Witness == NonDescentOnConvex /\ lsPc = "loop" /\ shrinks = MaxShrink

----------------------------------------------------------------------------
(* The derivative checker and the finite-difference engine.                *)

FDx == PointFromTenths(fdCall.x)

CheckGradientReturned == fdPc = "done" /\ fdCall.op = "checkGradient"

\* the larger of two numbers
XMax(a, b) == IF XLess(a, b) THEN b ELSE a

\* |g - n| <= 1e-2 * max(|g|, |n|, 1), in Scalars
WithinTolerance(g, n) ==
    XLeq(XAbs(FSub(g, n)),
         FMul(FDiv(FFromInt(1), FFromInt(100)),
              XMax(XMax(XAbs(g), XAbs(n)), FFromInt(1))))

(* C4: checkGradient returns a boolean, and it returns true if and only if *)
(* every coordinate d of g = gradient(x) and n = finiteGradient(x,         *)
(* accuracy) has |g[d] - n[d]| <= 1e-2 * max(|g[d]|, |n[d]|, 1).             *)
C4_TrueIffAllWithinTolerance ==
    CheckGradientReturned =>
        /\ fdResult \in BOOLEAN
        /\ fdResult = (\A d \in 1..Len(actual_grad) :
                          WithinTolerance(actual_grad[d], expected_grad[d]))

\* false was returned although the first coordinate agrees: the mismatch
\* is at the second
C4_Witness ==
    /\ CheckGradientReturned
    /\ fdResult = FALSE
    /\ WithinTolerance(actual_grad[1], expected_grad[1])

\* the 8-point stencil as the property states it
EightPointCoefficients == <<3, -32, 168, -672, 672, -168, 32, -3>>

EightPointOffsets == <<-4, -3, -2, -1, 1, 2, 3, 4>>

RECURSIVE EightPointSum(_, _, _, _)
EightPointSum(obj, x, d, k) ==
    IF k = 0 THEN XZero
    ELSE FAdd(EightPointSum(obj, x, d, k - 1),
              FMul(FFromInt(EightPointCoefficients[k]),
                   value(obj, [x EXCEPT ![d] =
                       FAdd(x[d], FMul(FFromInt(EightPointOffsets[k]), finiteGradient_eps))])))

EightPoint(obj, x, d) ==
    FDiv(EightPointSum(obj, x, d, 8), FMul(FFromInt(840), finiteGradient_eps))

AnalyticAtAccuracy3 ==
    /\ CheckGradientReturned
    /\ fdCall.override = "analytic"
    /\ fdCall.accuracy = 3

(* C5: with the correct analytic gradient as gradient(), checkGradient(x,  *)
(* 3) returns true at every point of every polynomial objective: the       *)
(* numeric gradient is the 8-point stencil (coefficients 3, -32, 168,      *)
(* -672, 672, -168, 32, -3 at the offsets -4..-1, 1..4 times eps, divided  *)
(* by 840 * eps) and it is within the checker's tolerance of the exact     *)
(* partial derivative.                                                     *)
C5_AnalyticGradientPasses ==
    AnalyticAtAccuracy3 =>
        /\ fdResult = TRUE
        /\ \A d \in Coords :
              /\ expected_grad[d] = EightPoint(fdCall.obj, FDx, d)
              /\ WithinTolerance(FRound(ExactPartial(fdCall.obj, FDx, d)), expected_grad[d])

\* the Rosenbrock function or the cubic, where the stencil's result is not
\* the analytic gradient to the last bit, so that the tolerance is at work
C5_Witness ==
    /\ AnalyticAtAccuracy3
    /\ fdCall.obj.extra # <<>>
    /\ fdResult = TRUE
    /\ expected_grad # actual_grad

\* A is symmetric positive definite and there are no higher terms
IsSPDQuadratic(obj) ==
    /\ obj.extra = <<>>
    /\ obj.A[1][2] = obj.A[2][1]
    /\ obj.A[1][1] > 0
    /\ obj.A[1][1] * obj.A[2][2] - obj.A[1][2] * obj.A[2][1] > 0

\* x + eps * e_i
PlusEps(x, i) == [x EXCEPT ![i] = FAdd(x[i], finiteHessian_eps)]

\* (f(x + eps e_i + eps e_j) - f(x + eps e_i) - f(x + eps e_j) + f(x)) / eps^2
FourPoint(obj, x, i, j) ==
    FDiv(FAdd(FSub(FSub(value(obj, PlusEps(PlusEps(x, i), j)), value(obj, PlusEps(x, i))),
                   value(obj, PlusEps(x, j))),
              value(obj, x)),
         FMul(finiteHessian_eps, finiteHessian_eps))

\* |h - a| <= 1e-4, exactly
WithinTenThousandth(h, a) ==
    XLeq(XMul(XAbs(XSub(h, XFromInt(a))), XFromInt(10000)), XFromInt(1))

HessianReturned ==
    fdPc = "done" /\ fdCall.op = "finiteHessian" /\ fdCall.accuracy = 0

(* C6: for a quadratic 0.5 x'Ax - b'x with symmetric positive-definite A,  *)
(* finiteHessian(x, H, 0) fills every entry H(i,j) with the four-point     *)
(* second difference (f(x+eps e_i+eps e_j) - f(x+eps e_i) - f(x+eps e_j)   *)
(* + f(x)) / eps^2, and that entry is within 1e-4 of A(i,j), at every x.   *)
C6_HessianOfQuadratic ==
    (HessianReturned /\ IsSPDQuadratic(fdCall.obj)) =>
        \A i \in Coords, j \in Coords :
            /\ hessian[i][j] = FourPoint(fdCall.obj, FDx, i, j)
            /\ WithinTenThousandth(hessian[i][j], fdCall.obj.A[i][j])

----------------------------------------------------------------------------
(* Box constraints.                                                        *)

\* the calls so far that set the lower (upper) bound
LowerCalls == { k \in 1..Len(calls) : calls[k].op \in {"setLowerBound", "setBoxConstraint"} }

UpperCalls == { k \in 1..Len(calls) : calls[k].op \in {"setUpperBound", "setBoxConstraint"} }

Last(S) == CHOOSE k \in S : \A j \in S : j <= k

\* this step is a call of the named setter
IsCall(op) == Len(calls') = Len(calls) + 1 /\ calls'[Len(calls')].op = op

(* C7: a BoundedProblem built by its default constructor, of fixed or      *)
(* dynamic dimension, reports lowerBound()[i] = -infinity and              *)
(* upperBound()[i] = +infinity for every coordinate i of the domain until  *)
(* the first call of a setter.                                             *)
C7_FreshBoundsInfinite ==
    (bpClass = "BoundedProblem" /\ bpCtor = "default" /\ calls = <<>>) =>
        /\ report.call = "lowerBound" => (report.kind = "value" /\ report.val = NegInf)
        /\ report.call = "upperBound" => (report.kind = "value" /\ report.val = PosInf)

(* C8: on a Problem, hasLowerBound() is true exactly when setLowerBound or *)
(* setBoxConstraint has been called at least once, and hasUpperBound()     *)
(* exactly when setUpperBound or setBoxConstraint has; a flag that is true *)
(* stays true; setLowerBound leaves the upper bound and its flag as they   *)
(* are and setUpperBound the lower bound and its flag.                     *)
C8_FlagsFollowSetters ==
    /\ [](bpClass = "Problem" =>
            /\ hasLowerBound = (LowerCalls # {})
            /\ hasUpperBound = (UpperCalls # {}))
    /\ [][bpClass = "Problem" =>
            /\ hasLowerBound => hasLowerBound'
            /\ hasUpperBound => hasUpperBound'
            /\ IsCall("setLowerBound") =>
                  (upperBound_' = upperBound_ /\ hasUpperBound_' = hasUpperBound_)
            /\ IsCall("setUpperBound") =>
                  (lowerBound_' = lowerBound_ /\ hasLowerBound_' = hasLowerBound_)]_vars

\* two calls were made, setLowerBound among them, and never one that sets
\* the upper bound
C8_Witness ==
    /\ bpClass = "Problem"
    /\ Len(calls) = 2
    /\ calls[1].op = "setLowerBound"
    /\ hasLowerBound
    /\ ~hasUpperBound

(* C10: on a BoundedProblem the three setters write m_lowerBound and       *)
(* m_upperBound only: the inherited flags and vectors of Problem never     *)
(* change, hasLowerBound() and hasUpperBound() stay false, and             *)
(* lowerBound() and upperBound() return the vector most recently set.      *)
C10_SettersWriteOwnVectorsOnly ==
    /\ [](bpClass = "BoundedProblem" =>
            /\ ~hasLowerBound
            /\ ~hasUpperBound
            /\ LowerCalls # {} => lowerBound = calls[Last(LowerCalls)].lb
            /\ UpperCalls # {} => upperBound = calls[Last(UpperCalls)].ub)
    /\ [][bpClass = "BoundedProblem" =>
            UNCHANGED <<hasLowerBound_, hasUpperBound_, lowerBound_, upperBound_>>]_vars

\* both bounds were set, the lower one twice
C10_Witness ==
    /\ bpClass = "BoundedProblem"
    /\ Len(calls) = 2
    /\ calls[1].op = "setLowerBound"
    /\ calls[2].op = "setBoxConstraint"
    /\ calls[1].lb # calls[2].lb

====
